---------------------------- MODULE Spec2Model ----------------------------
(***************************************************************************)
(* A model of singer_sdk.io_base.SingerReader: listen, _process_lines and  *)
(* the per-line steps (deserialize, required-key check, dispatch on the    *)
(* `type` value, per-kind stats), with the concrete reader's handlers as   *)
(* an environment that returns or raises.                                  *)
(*                                                                         *)
(* One reader instance is shared by the invocations of listen in          *)
(* Invocations.  Everything that the source keeps in locals of listen and  *)
(* _process_lines is a function of the invocation; `trace` is the one      *)
(* thing all invocations share: the handler calls the concrete reader      *)
(* observes, in the order they happen.                                     *)
(***************************************************************************)
EXTENDS Integers, Sequences, FiniteSets, TLC

(* ------------------------------ bounds -------------------------------- *)

\* Longest input stream of the single-invocation specification.
MaxLines == 3

\* Longest input stream of each invocation in the concurrent specification.
MaxConcLines == 1

(* --------------------------- message kinds ---------------------------- *)

\* The five SingerMessageType members _process_lines compares against.
KnownKinds == {"SCHEMA", "RECORD", "ACTIVATE_VERSION", "STATE", "BATCH"}

\* `type` values that occur in input lines: the known kinds and one other.
TypeValues == KnownKinds \cup {"FOO"}

\* Marks an object line that has no `type` key.
Absent == "<absent>"

(* ------------------------------- input -------------------------------- *)

\* The text of one input line, by its JSON form:
\*   invalid  not JSON at all
\*   object   {"type": <type>, "stream": "a"}, or {"stream": "a"} when the
\*            type is Absent
\*   array    ["type"] when type = "type", [] when the type is Absent
\*   number   5
ObjectLines == [form : {"object"}, type : TypeValues \cup {Absent}]

Lines ==
    ObjectLines
      \cup [form : {"array"}, type : {"type", Absent}]
      \cup [form : {"invalid", "number"}, type : {Absent}]

\* The lines of the concurrent specification: RECORD lines occur only in the
\* stream of invocation 1 and STATE lines only in the stream of invocation 2.
ConcLines(i) ==
    [form : {"object"}, type : {IF i = 1 THEN "RECORD" ELSE "STATE", "FOO"}]

RECURSIVE SeqsUpTo(_, _)
SeqsUpTo(S, n) ==
    IF n = 0 THEN {<<>>}
    ELSE LET shorter == SeqsUpTo(S, n - 1)
         IN  shorter \cup {Append(s, x) : s \in {t \in shorter : Len(t) = n - 1}, x \in S}

(* ------------------------------ errors -------------------------------- *)

NoError == [exc |-> "None"]

\* What a concrete handler may raise.
HandlerErrors == {[exc |-> "HandlerError", id |-> 1], [exc |-> "HandlerError", id |-> 2]}

(* ------------------------- python values ------------------------------ *)

EmptyDict == [k \in {} |-> 0]

\* deserialize_json with the decode error swallowed: an invalid line yields
\* an empty dict.
deserialize_json_swallow(line) ==
    IF line.form = "invalid"
      THEN [raised |-> NoError, value |-> [py |-> "dict", items |-> EmptyDict]]
      ELSE [raised |-> NoError,
            value  |-> IF line.form = "object"
                         THEN [py    |-> "dict",
                               items |-> IF line.type = Absent
                                           THEN [k \in {"stream"} |-> "a"]
                                           ELSE [k \in {"type", "stream"} |->
                                                   IF k = "type" THEN line.type ELSE "a"]]
                         ELSE IF line.form = "array"
                                THEN [py |-> "list",
                                      elems |-> IF line.type = Absent THEN {} ELSE {line.type}]
                                ELSE [py |-> "int"]]

\* json.loads(line, parse_float=decimal.Decimal): the python value of a line,
\* or the JSONDecodeError it raises.
deserialize_json(line) ==
    CASE line.form = "invalid" ->
           [raised |-> [exc |-> "JSONDecodeError", doc |-> line], value |-> [py |-> "none"]]
      [] line.form = "object" ->
           [raised |-> NoError,
            value  |-> [py    |-> "dict",
                        items |-> IF line.type = Absent
                                    THEN [k \in {"stream"} |-> "a"]
                                    ELSE [k \in {"type", "stream"} |->
                                            IF k = "type" THEN line.type ELSE "a"]]]
      [] line.form = "array" ->
           [raised |-> NoError,
            value  |-> [py |-> "list",
                        elems |-> IF line.type = Absent THEN {} ELSE {line.type}]]
      [] OTHER ->
           [raised |-> NoError, value |-> [py |-> "int"]]

\* set(line_dict): the keys of a dict, the elements of a list.
Iterated(line_dict) ==
    CASE line_dict.py = "dict" -> DOMAIN line_dict.items
      [] line_dict.py = "list" -> line_dict.elems
      [] OTHER -> {}

\* _assert_line_requires with the set difference the wrong way round:
\* set(line_dict) - requires.
assert_line_requires_reversed(line_dict, requires) ==
    IF line_dict.py = "int"
      THEN [exc |-> "TypeError"]
      ELSE IF ~(requires \subseteq Iterated(line_dict))
             THEN [exc |-> "InvalidInputLine", missing |-> Iterated(line_dict) \ requires]
             ELSE NoError

\* _assert_line_requires that reports the first missing key it finds and no
\* other.
assert_line_requires_first(line_dict, requires) ==
    IF line_dict.py = "int"
      THEN [exc |-> "TypeError"]
      ELSE IF ~(requires \subseteq Iterated(line_dict))
             THEN [exc     |-> "InvalidInputLine",
                   missing |-> {CHOOSE k \in requires \ Iterated(line_dict) : TRUE}]
             ELSE NoError

\* _assert_line_requires(line_dict, requires): the error it raises, if any.
\* An int is not iterable: issubset raises TypeError.
assert_line_requires(line_dict, requires) ==
    IF line_dict.py = "int"
      THEN [exc |-> "TypeError"]
      ELSE IF ~(requires \subseteq Iterated(line_dict))
             THEN [exc |-> "InvalidInputLine", missing |-> requires \ Iterated(line_dict)]
             ELSE NoError

\* line_dict["type"]: the value, or the error of the subscript.
Subscript(line_dict, key) ==
    IF line_dict.py = "dict"
      THEN IF key \in DOMAIN line_dict.items
             THEN [raised |-> NoError, value |-> line_dict.items[key]]
             ELSE [raised |-> [exc |-> "KeyError", key |-> key], value |-> Absent]
      ELSE [raised |-> [exc |-> "TypeError"], value |-> Absent]

\* The if/elif chain without its BATCH branch.
SelectHandler_no_batch(record_type) ==
    CASE record_type = "SCHEMA"           -> "_process_schema_message"
      [] record_type = "RECORD"           -> "_process_record_message"
      [] record_type = "ACTIVATE_VERSION" -> "_process_activate_version_message"
      [] record_type = "STATE"            -> "_process_state_message"
      [] OTHER                            -> "_process_unknown_message"

\* The if/elif chain of _process_lines: the handler a type value selects.
SelectHandler(record_type) ==
    CASE record_type = "SCHEMA"           -> "_process_schema_message"
      [] record_type = "RECORD"           -> "_process_record_message"
      [] record_type = "ACTIVATE_VERSION" -> "_process_activate_version_message"
      [] record_type = "STATE"            -> "_process_state_message"
      [] record_type = "BATCH"            -> "_process_batch_message"
      [] OTHER                            -> "_process_unknown_message"

\* stats[record_type] = 1 in place of += 1.
IncrementStats_assign(st, record_type) ==
    [k \in DOMAIN st \cup {record_type} |-> IF k = record_type THEN 1 ELSE st[k]]

\* stats[record_type] += 1 on a defaultdict(int).
IncrementStats(st, record_type) ==
    IF record_type \in DOMAIN st
      THEN [st EXCEPT ![record_type] = @ + 1]
      ELSE st @@ (record_type :> 1)

\* Counter(**stats): the value _process_lines returns.
CounterOf(st) == [kind |-> "Counter", counts |-> st]

\* The value of a function that returns nothing.
PyNone == [kind |-> "None"]

(* ------------------------------- state -------------------------------- *)

Invocations == {1, 2}

VARIABLES
    file_input,              \* per invocation: the lines of its input stream
    pc,                      \* per invocation: where it is in listen
    pos,                     \* per invocation: lines taken from file_input
    line,                    \* per invocation: the line of this iteration
    line_dict,               \* per invocation: its parsed value
    record_type,             \* per invocation: line_dict["type"]
    stats,                   \* per invocation: the local defaultdict(int)
    record_message_counter,  \* per invocation: the live record counter
    raised,                  \* per invocation: the error that left listen
    process_lines_ret,       \* per invocation: what _process_lines returned
    listen_ret,              \* per invocation: what listen returned
    unknown_override,        \* the reader overrides _process_unknown_message
    trace                    \* the handler calls, returns and raises so far

reader_vars == <<file_input, pc, pos, line, line_dict, record_type, stats,
                 record_message_counter, raised, process_lines_ret, listen_ret,
                 unknown_override, trace>>

\* The catalog selection projection (sample_tap_countries.countries_streams).
VARIABLES
    selection,               \* the selection mask handed to selection_to_fields
    fields,                  \* the field list it returned
    sel_pc                   \* idle, called or returned

select_vars == <<selection, fields, sel_pc>>

\* The writer (SingerWriter).
VARIABLES
    written,                 \* the messages of the write_message calls so far
    stdout,                  \* what has been emitted to standard output
    writer_pc                \* idle or open

writer_vars == <<written, stdout, writer_pc>>

\* A number of a RECORD line on its way through deserialize_json and back to
\* text.
VARIABLES
    rt_literal,              \* the number as it stands in the input line
    rt_value,                \* the python value deserialize_json made of it
    rt_output,               \* the number as it stands in the line written
    rt_pc                    \* idle, text, parsed or written

roundtrip_vars == <<rt_literal, rt_value, rt_output, rt_pc>>

\* One call of the required-key check (SingerReader._assert_line_requires).
VARIABLES
    req_line_dict,           \* the parsed object handed to the check
    req_requires,            \* the set of required keys handed to it
    req_raised,              \* the error the check raised, if any
    req_pc                   \* idle, called or done

requires_vars == <<req_line_dict, req_requires, req_raised, req_pc>>

\* One run of a test template (TestTemplate.run).
VARIABLES
    tt_name,                 \* self.name
    tt_type,                 \* self.type
    tt_pc,                   \* idle, or where the run is
    tt_calls,                \* the lifecycle steps invoked so far, in order
    tt_outcome,              \* per step: how its call ended
    tt_pending,              \* the error in flight while the finally clause runs
    tt_raised                \* the error that left run

template_vars == <<tt_name, tt_type, tt_pc, tt_calls, tt_outcome, tt_pending, tt_raised>>

\* Everything that is not the reader's.
aux_vars == <<select_vars, writer_vars, roundtrip_vars, requires_vars, template_vars>>

vars == <<reader_vars, aux_vars>>

NoLine == [form |-> "none", type |-> Absent]
NoValue == [py |-> "none"]
NotReturned == [kind |-> "NotReturned"]

Event(i, ev, handler, arg, err) ==
    [inv |-> i, lineno |-> pos[i], ev |-> ev, handler |-> handler, arg |-> arg, err |-> err]

\* No selection_to_fields call is under way.
SelectIdle ==
    /\ selection = <<>>
    /\ fields = <<>>
    /\ sel_pc = "idle"

\* No writer is in use.
WriterIdle ==
    /\ written = <<>>
    /\ stdout = <<>>
    /\ writer_pc = "idle"

NoNumber == [py |-> "none"]

\* No number is on its way.
RoundTripIdle ==
    /\ rt_literal = NoNumber
    /\ rt_value = NoNumber
    /\ rt_output = NoNumber
    /\ rt_pc = "idle"

\* No required-key check is under way.
RequiresIdle ==
    /\ req_line_dict = NoValue
    /\ req_requires = {}
    /\ req_raised = NoError
    /\ req_pc = "idle"

\* The lifecycle steps of a test template.
Steps == {"setup", "test", "validate", "teardown"}

\* No test template is run.
TemplateIdle ==
    /\ tt_name = "None"
    /\ tt_type = "None"
    /\ tt_pc = "idle"
    /\ tt_calls = <<>>
    /\ tt_outcome = [s \in Steps |-> "uncalled"]
    /\ tt_pending = NoError
    /\ tt_raised = NoError

\* No listen call is made.
ReaderIdle ==
    /\ file_input = [i \in Invocations |-> <<>>]
    /\ pc = [i \in Invocations |-> "uncalled"]
    /\ pos = [i \in Invocations |-> 0]
    /\ line = [i \in Invocations |-> NoLine]
    /\ line_dict = [i \in Invocations |-> NoValue]
    /\ record_type = [i \in Invocations |-> Absent]
    /\ stats = [i \in Invocations |-> EmptyDict]
    /\ record_message_counter = [i \in Invocations |-> 0]
    /\ raised = [i \in Invocations |-> NoError]
    /\ process_lines_ret = [i \in Invocations |-> NotReturned]
    /\ listen_ret = [i \in Invocations |-> NotReturned]
    /\ unknown_override = FALSE
    /\ trace = <<>>

InitWith(inputs, started) ==
    /\ file_input \in inputs
    /\ pc = [i \in Invocations |-> IF i \in started THEN "called" ELSE "uncalled"]
    /\ pos = [i \in Invocations |-> 0]
    /\ line = [i \in Invocations |-> NoLine]
    /\ line_dict = [i \in Invocations |-> NoValue]
    /\ record_type = [i \in Invocations |-> Absent]
    /\ stats = [i \in Invocations |-> EmptyDict]
    /\ record_message_counter = [i \in Invocations |-> 0]
    /\ raised = [i \in Invocations |-> NoError]
    /\ process_lines_ret = [i \in Invocations |-> NotReturned]
    /\ listen_ret = [i \in Invocations |-> NotReturned]
    /\ unknown_override \in BOOLEAN
    /\ trace = <<>>
    /\ SelectIdle
    /\ WriterIdle
    /\ RoundTripIdle
    /\ RequiresIdle
    /\ TemplateIdle

\* One listen call on the reader.
Init ==
    InitWith({[i \in Invocations |-> IF i = 1 THEN s ELSE <<>>] :
                 s \in SeqsUpTo(Lines, MaxLines)}, {1})

\* Two listen calls on the same reader, each on its own stream.
InitConc ==
    InitWith({f \in [Invocations -> SeqsUpTo(Lines, MaxConcLines)] :
                 \A i \in Invocations :
                    \A k \in 1..Len(f[i]) : f[i][k] \in ConcLines(i)},
             Invocations)

(* ------------------------------ actions ------------------------------- *)

\* The error is kept but the loop goes on with the next line.
Raise_and_continue(i, err) ==
    /\ raised' = [raised EXCEPT ![i] = err]
    /\ pc' = [pc EXCEPT ![i] = "next_line"]

\* An exception leaves the for loop, both with blocks and listen: there is no
\* try/except on the way, and the exits of the metrics counter and timer
\* (singer_sdk.metrics) log and let the exception through.
Raise(i, err) ==
    /\ raised' = [raised EXCEPT ![i] = err]
    /\ pc' = [pc EXCEPT ![i] = "failed"]

\* listen up to the for loop of _process_lines: fresh stats, fresh counter.
Listen(i) ==
    /\ pc[i] = "called"
    /\ stats' = [stats EXCEPT ![i] = EmptyDict]
    /\ record_message_counter' = [record_message_counter EXCEPT ![i] = 0]
    /\ pc' = [pc EXCEPT ![i] = "next_line"]
    /\ UNCHANGED <<file_input, pos, line, line_dict, record_type, raised,
                   process_lines_ret, listen_ret, unknown_override, trace>>
    /\ UNCHANGED aux_vars

\* The loop ends one line early.
NextLine_off_by_one(i) ==
    /\ pc[i] = "next_line"
    /\ IF pos[i] + 1 < Len(file_input[i])
         THEN /\ pos' = [pos EXCEPT ![i] = @ + 1]
              /\ line' = [line EXCEPT ![i] = file_input[i][pos[i] + 1]]
              /\ pc' = [pc EXCEPT ![i] = "deserialize"]
              /\ UNCHANGED process_lines_ret
         ELSE /\ process_lines_ret' = [process_lines_ret EXCEPT ![i] = CounterOf(stats[i])]
              /\ pc' = [pc EXCEPT ![i] = "endofpipe"]
              /\ UNCHANGED <<pos, line>>
    /\ UNCHANGED <<file_input, line_dict, record_type, stats, record_message_counter,
                   raised, listen_ret, unknown_override, trace>>
    /\ UNCHANGED aux_vars

\* `for line in file_input`: the next line, or the end of the loop, where
\* _process_lines returns Counter(**stats).
NextLine(i) ==
    /\ pc[i] = "next_line"
    /\ IF pos[i] < Len(file_input[i])
         THEN /\ pos' = [pos EXCEPT ![i] = @ + 1]
              /\ line' = [line EXCEPT ![i] = file_input[i][pos[i] + 1]]
              /\ pc' = [pc EXCEPT ![i] = "deserialize"]
              /\ UNCHANGED process_lines_ret
         ELSE /\ process_lines_ret' = [process_lines_ret EXCEPT ![i] = CounterOf(stats[i])]
              /\ pc' = [pc EXCEPT ![i] = "endofpipe"]
              /\ UNCHANGED <<pos, line>>
    /\ UNCHANGED <<file_input, line_dict, record_type, stats, record_message_counter,
                   raised, listen_ret, unknown_override, trace>>
    /\ UNCHANGED aux_vars

\* The reader running ahead of itself: with a line parsed, the next line is
\* already taken from the stream.
Deserialize_prefetch(i) ==
    /\ pc[i] = "deserialize"
    /\ LET r == deserialize_json(line[i])
       IN  IF r.raised # NoError
             THEN /\ Raise(i, r.raised)
                  /\ UNCHANGED <<line_dict, pos>>
             ELSE /\ line_dict' = [line_dict EXCEPT ![i] = r.value]
                  /\ pos' = [pos EXCEPT ![i] =
                                IF @ < Len(file_input[i]) THEN @ + 1 ELSE @]
                  /\ pc' = [pc EXCEPT ![i] = "requires"]
                  /\ UNCHANGED raised
    /\ UNCHANGED <<file_input, line, record_type, stats, record_message_counter,
                   process_lines_ret, listen_ret, unknown_override, trace>>
    /\ UNCHANGED aux_vars

\* line_dict = self.deserialize_json(line)
Deserialize(i) ==
    /\ pc[i] = "deserialize"
    /\ LET r == deserialize_json(line[i])
       IN  IF r.raised # NoError
             THEN /\ Raise(i, r.raised)
                  /\ UNCHANGED line_dict
             ELSE /\ line_dict' = [line_dict EXCEPT ![i] = r.value]
                  /\ pc' = [pc EXCEPT ![i] = "requires"]
                  /\ UNCHANGED raised
    /\ UNCHANGED <<file_input, pos, line, record_type, stats, record_message_counter,
                   process_lines_ret, listen_ret, unknown_override, trace>>
    /\ UNCHANGED aux_vars

\* self._assert_line_requires(line_dict, requires={"type"})
AssertRequires(i) ==
    /\ pc[i] = "requires"
    /\ LET err == assert_line_requires(line_dict[i], {"type"})
       IN  IF err # NoError
             THEN Raise(i, err)
             ELSE /\ pc' = [pc EXCEPT ![i] = "dispatch"]
                  /\ UNCHANGED raised
    /\ UNCHANGED <<file_input, pos, line, line_dict, record_type, stats,
                   record_message_counter, process_lines_ret, listen_ret,
                   unknown_override, trace>>
    /\ UNCHANGED aux_vars

\* The chain written with `if` where the source has `elif`: a SCHEMA line
\* falls through to the final else as well, so that two handlers are called
\* for it.
Dispatch_if_for_elif(i) ==
    /\ pc[i] = "dispatch"
    /\ LET r == Subscript(line_dict[i], "type")
       IN  IF r.raised # NoError
             THEN /\ Raise(i, r.raised)
                  /\ UNCHANGED <<record_type, record_message_counter, trace>>
             ELSE /\ record_type' = [record_type EXCEPT ![i] = r.value]
                  /\ record_message_counter' =
                        [record_message_counter EXCEPT ![i] =
                            IF r.value = "RECORD" THEN @ + 1 ELSE @]
                  /\ trace' =
                        IF r.value = "SCHEMA"
                          THEN trace \o
                                 <<Event(i, "call", "_process_schema_message", line_dict[i], NoError),
                                   Event(i, "return", "_process_schema_message", line_dict[i], NoError),
                                   Event(i, "call", "_process_unknown_message", line_dict[i], NoError)>>
                          ELSE Append(trace,
                                 Event(i, "call", SelectHandler(r.value), line_dict[i], NoError))
                  /\ pc' = [pc EXCEPT ![i] = "in_handler"]
                  /\ UNCHANGED raised
    /\ UNCHANGED <<file_input, pos, line, line_dict, stats, process_lines_ret,
                   listen_ret, unknown_override>>
    /\ UNCHANGED aux_vars

\* The live counter incremented ahead of the chain, for a line of any kind.
Dispatch_count_every_kind(i) ==
    /\ pc[i] = "dispatch"
    /\ LET r == Subscript(line_dict[i], "type")
       IN  IF r.raised # NoError
             THEN /\ Raise(i, r.raised)
                  /\ UNCHANGED <<record_type, record_message_counter, trace>>
             ELSE /\ record_type' = [record_type EXCEPT ![i] = r.value]
                  /\ record_message_counter' =
                        [record_message_counter EXCEPT ![i] = @ + 1]
                  /\ trace' = Append(trace,
                        Event(i, "call", SelectHandler(r.value), line_dict[i], NoError))
                  /\ pc' = [pc EXCEPT ![i] = "in_handler"]
                  /\ UNCHANGED raised
    /\ UNCHANGED <<file_input, pos, line, line_dict, stats, process_lines_ret,
                   listen_ret, unknown_override>>
    /\ UNCHANGED aux_vars

\* record_type = line_dict["type"], then the if/elif chain up to the call of
\* the selected handler; the RECORD branch increments the live counter first.
Dispatch(i) ==
    /\ pc[i] = "dispatch"
    /\ LET r == Subscript(line_dict[i], "type")
       IN  IF r.raised # NoError
             THEN /\ Raise(i, r.raised)
                  /\ UNCHANGED <<record_type, record_message_counter, trace>>
             ELSE /\ record_type' = [record_type EXCEPT ![i] = r.value]
                  /\ record_message_counter' =
                        [record_message_counter EXCEPT ![i] =
                            IF r.value = "RECORD" THEN @ + 1 ELSE @]
                  /\ trace' = Append(trace,
                        Event(i, "call", SelectHandler(r.value), line_dict[i], NoError))
                  /\ pc' = [pc EXCEPT ![i] = "in_handler"]
                  /\ UNCHANGED raised
    /\ UNCHANGED <<file_input, pos, line, line_dict, stats, process_lines_ret,
                   listen_ret, unknown_override>>
    /\ UNCHANGED aux_vars

\* The handler in progress is one the concrete reader supplies.
InConcreteHandler(i) ==
    /\ pc[i] = "in_handler"
    /\ SelectHandler(record_type[i]) = "_process_unknown_message" => unknown_override

\* A handler of the concrete reader returns.
HandlerReturn(i) ==
    /\ InConcreteHandler(i)
    /\ trace' = Append(trace,
          Event(i, "return", SelectHandler(record_type[i]), line_dict[i], NoError))
    /\ pc' = [pc EXCEPT ![i] = "count"]
    /\ UNCHANGED <<file_input, pos, line, line_dict, record_type, stats,
                   record_message_counter, raised, process_lines_ret, listen_ret,
                   unknown_override>>
    /\ UNCHANGED aux_vars

\* The handler's error caught and replaced by an error of the reader's own.
HandlerRaise_wrapped(i) ==
    /\ InConcreteHandler(i)
    /\ \E err \in HandlerErrors :
          /\ trace' = Append(trace,
                Event(i, "raise", SelectHandler(record_type[i]), line_dict[i], err))
          /\ Raise(i, [exc |-> "RuntimeError", cause |-> err])
    /\ UNCHANGED <<file_input, pos, line, line_dict, record_type, stats,
                   record_message_counter, process_lines_ret, listen_ret,
                   unknown_override>>
    /\ UNCHANGED aux_vars

\* The stats incremented in a `finally`: a line whose handler raises is
\* counted all the same.
HandlerRaise_counted(i) ==
    /\ InConcreteHandler(i)
    /\ \E err \in HandlerErrors :
          /\ trace' = Append(trace,
                Event(i, "raise", SelectHandler(record_type[i]), line_dict[i], err))
          /\ Raise(i, err)
    /\ stats' = [stats EXCEPT ![i] = IncrementStats(@, record_type[i])]
    /\ UNCHANGED <<file_input, pos, line, line_dict, record_type,
                   record_message_counter, process_lines_ret, listen_ret,
                   unknown_override>>
    /\ UNCHANGED aux_vars

\* A handler of the concrete reader raises: nothing in _process_lines or
\* listen catches it.
HandlerRaise(i) ==
    /\ InConcreteHandler(i)
    /\ \E err \in HandlerErrors :
          /\ trace' = Append(trace,
                Event(i, "raise", SelectHandler(record_type[i]), line_dict[i], err))
          /\ Raise(i, err)
    /\ UNCHANGED <<file_input, pos, line, line_dict, record_type, stats,
                   record_message_counter, process_lines_ret, listen_ret,
                   unknown_override>>
    /\ UNCHANGED aux_vars

\* The default unknown-message handler warning and returning in place of
\* raising.
process_unknown_message_warn(i) ==
    /\ pc[i] = "in_handler"
    /\ SelectHandler(record_type[i]) = "_process_unknown_message"
    /\ ~unknown_override
    /\ trace' = Append(trace,
          Event(i, "return", "_process_unknown_message", line_dict[i], NoError))
    /\ pc' = [pc EXCEPT ![i] = "count"]
    /\ UNCHANGED <<file_input, pos, line, line_dict, record_type, stats,
                   record_message_counter, raised, process_lines_ret, listen_ret,
                   unknown_override>>
    /\ UNCHANGED aux_vars

\* SingerReader._process_unknown_message, when the reader does not override
\* it: ValueError naming message_dict["type"].
process_unknown_message(i) ==
    /\ pc[i] = "in_handler"
    /\ SelectHandler(record_type[i]) = "_process_unknown_message"
    /\ ~unknown_override
    /\ LET err == [exc |-> "ValueError",
                   record_type |-> Subscript(line_dict[i], "type").value]
       IN  /\ trace' = Append(trace,
                 Event(i, "raise", "_process_unknown_message", line_dict[i], err))
           /\ Raise(i, err)
    /\ UNCHANGED <<file_input, pos, line, line_dict, record_type, stats,
                   record_message_counter, process_lines_ret, listen_ret,
                   unknown_override>>
    /\ UNCHANGED aux_vars

\* The stats kept on the reader instance: one set of counters that every
\* invocation increments.
Count_shared(i) ==
    /\ pc[i] = "count"
    /\ stats' = [j \in Invocations |-> IncrementStats(stats[j], record_type[i])]
    /\ pc' = [pc EXCEPT ![i] = "next_line"]
    /\ UNCHANGED <<file_input, pos, line, line_dict, record_type,
                   record_message_counter, raised, process_lines_ret, listen_ret,
                   unknown_override, trace>>
    /\ UNCHANGED aux_vars

\* Only lines of the five known kinds counted under their type value; any
\* other line counted under "UNKNOWN".
Count_known_only(i) ==
    /\ pc[i] = "count"
    /\ stats' = [stats EXCEPT ![i] =
                    IncrementStats(@, IF record_type[i] \in KnownKinds
                                        THEN record_type[i] ELSE "UNKNOWN")]
    /\ pc' = [pc EXCEPT ![i] = "next_line"]
    /\ UNCHANGED <<file_input, pos, line, line_dict, record_type,
                   record_message_counter, raised, process_lines_ret, listen_ret,
                   unknown_override, trace>>
    /\ UNCHANGED aux_vars

\* stats[record_type] += 1
Count(i) ==
    /\ pc[i] = "count"
    /\ stats' = [stats EXCEPT ![i] = IncrementStats(@, record_type[i])]
    /\ pc' = [pc EXCEPT ![i] = "next_line"]
    /\ UNCHANGED <<file_input, pos, line, line_dict, record_type,
                   record_message_counter, raised, process_lines_ret, listen_ret,
                   unknown_override, trace>>
    /\ UNCHANGED aux_vars

\* self._process_endofpipe(), which logs and returns; then the timer's with
\* block ends and listen returns None.
process_endofpipe(i) ==
    /\ pc[i] = "endofpipe"
    /\ trace' = Append(trace,
          Event(i, "call", "_process_endofpipe", NoValue, NoError))
    /\ listen_ret' = [listen_ret EXCEPT ![i] = PyNone]
    /\ pc' = [pc EXCEPT ![i] = "done"]
    /\ UNCHANGED <<file_input, pos, line, line_dict, record_type, stats,
                   record_message_counter, raised, process_lines_ret,
                   unknown_override>>
    /\ UNCHANGED aux_vars

Next ==
    \E i \in Invocations :
        \/ Listen(i)
        \/ NextLine(i)
        \/ Deserialize(i)
        \/ AssertRequires(i)
        \/ Dispatch(i)
        \/ HandlerReturn(i)
        \/ HandlerRaise(i)
        \/ process_unknown_message(i)
        \/ Count(i)
        \/ process_endofpipe(i)

Spec == Init /\ [][Next]_vars

SpecConc == InitConc /\ [][Next]_vars


(* ------------------ catalog selection projection --------------------- *)

\* Longest selection mask, in entries.
MaxMask == 2

\* Longest field path, in segments.
MaxDepth == 2

\* The field names that occur.
Names == {"x", "y"}

\* The field paths: ("x",), ("x", "y"), ...
Paths == SeqsUpTo(Names, MaxDepth) \ {<<>>}

\* One item of a selection mask: a path and whether it is selected.
MaskItems == [path : Paths, selected : BOOLEAN]

\* The selection masks: dicts, so ordered by insertion and with unique keys.
Masks ==
    {m \in SeqsUpTo(MaskItems, MaxMask) :
        \A a, b \in 1..Len(m) : a # b => m[a].path # m[b].path}

\* Position of name among the keys of tree, 0 when it is not a key.  A tree is
\* a dict of name to subtree, here the sequence of its <<name, subtree>>
\* items in insertion order.
KeyIndex(tree, name) ==
    IF \E k \in 1..Len(tree) : tree[k][1] = name
      THEN CHOOSE k \in 1..Len(tree) : tree[k][1] = name
      ELSE 0

\* The tree with the segments of path inserted, each as a child of the one
\* before it; nodes that exist are kept, with their children.
RECURSIVE InsertPath(_, _)
InsertPath(tree, path) ==
    IF path = <<>> THEN tree
    ELSE LET k == KeyIndex(tree, Head(path))
         IN  IF k = 0
               THEN Append(tree, <<Head(path), InsertPath(<<>>, Tail(path))>>)
               ELSE [tree EXCEPT ![k] = <<Head(path), InsertPath(tree[k][2], Tail(path))>>]

\* selection_to_tree(selection): the selected paths of the mask inserted, in
\* the order of the mask, into an empty tree.
RECURSIVE selection_to_tree(_)
selection_to_tree(mask) ==
    IF mask = <<>> THEN <<>>
    ELSE LET before == selection_to_tree(SubSeq(mask, 1, Len(mask) - 1))
             last   == mask[Len(mask)]
         IN  IF last.selected THEN InsertPath(before, last.path) ELSE before

\* _tree_to_fields with the recursion left out: every field a leaf.
tree_to_fields_leaves(tree) ==
    [k \in 1..Len(tree) |-> [name |-> tree[k][1], fields |-> <<>>]]

\* _tree_to_fields(tree): a Field per item of the tree, in the tree's order,
\* with the fields of the item's subtree.
RECURSIVE tree_to_fields(_)
tree_to_fields(tree) ==
    [k \in 1..Len(tree) |->
        [name |-> tree[k][1], fields |-> tree_to_fields(tree[k][2])]]

\* The mask with every entry marked selected.
AllSelected(mask) == [k \in 1..Len(mask) |-> [mask[k] EXCEPT !.selected = TRUE]]

\* selection_to_fields that does not look at the flags of the mask.
selection_to_fields_any_flag(mask) ==
    tree_to_fields(selection_to_tree(AllSelected(mask)))

\* selection_to_fields that renders the tree of each mask entry by itself
\* and concatenates the results.
RECURSIVE selection_to_fields_per_entry(_)
selection_to_fields_per_entry(mask) ==
    IF mask = <<>> THEN <<>>
    ELSE selection_to_fields_per_entry(SubSeq(mask, 1, Len(mask) - 1))
           \o tree_to_fields(selection_to_tree(<<mask[Len(mask)]>>))

\* selection_to_fields(selection)
selection_to_fields(mask) ==
    tree_to_fields(selection_to_tree(mask))

\* A stream calls selection_to_fields on its mask.
SelectionToFields ==
    /\ sel_pc = "called"
    /\ fields' = selection_to_fields(selection)
    /\ sel_pc' = "returned"
    /\ UNCHANGED <<selection, reader_vars, writer_vars, roundtrip_vars,
                 requires_vars, template_vars>>

InitSelect ==
    /\ selection \in Masks
    /\ fields = <<>>
    /\ sel_pc = "called"
    /\ ReaderIdle
    /\ WriterIdle
    /\ RoundTripIdle
    /\ RequiresIdle
    /\ TemplateIdle

NextSelect == SelectionToFields

SpecSelect == InitSelect /\ [][NextSelect]_vars


(* ------------------------------ writer -------------------------------- *)

\* Most write_message calls on one writer.
MaxWrites == 3

\* The classes of singer_sdk._singerlib.messages.Message.
MessageClasses ==
    {"SchemaMessage", "RecordMessage", "ActivateVersionMessage", "StateMessage",
     "BatchMessage"}

\* The messages handed to the writer.
Messages == [cls : MessageClasses, stream : {"a", "b"}]

\* The `type` tag of a message class.
TypeTag(cls) ==
    CASE cls = "SchemaMessage"          -> "SCHEMA"
      [] cls = "RecordMessage"          -> "RECORD"
      [] cls = "ActivateVersionMessage" -> "ACTIVATE_VERSION"
      [] cls = "StateMessage"           -> "STATE"
      [] cls = "BatchMessage"           -> "BATCH"

\* The record-separating terminator, "\n".
Terminator == [form |-> "newline"]

\* singer_format_message(message): the message's dict as one line of JSON,
\* without the terminator.
singer_format_message(message) ==
    [form |-> "object", type |-> TypeTag(message.cls), stream |-> message.stream]

\* singer_write_message(message): what it writes to standard output before it
\* flushes: the formatted line and the terminator.
singer_write_message(message) ==
    <<singer_format_message(message), Terminator>>

\* SingerWriter.format_message(message)
format_message(message) == singer_format_message(message)

\* write_message emitting the formatted line alone.
write_message_unterminated(message) ==
    /\ writer_pc = "open"
    /\ Len(written) < MaxWrites
    /\ written' = Append(written, message)
    /\ stdout' = Append(stdout, format_message(message))
    /\ UNCHANGED <<writer_pc, reader_vars, select_vars, roundtrip_vars,
                 requires_vars, template_vars>>

\* SingerWriter.write_message(message)
write_message(message) ==
    /\ writer_pc = "open"
    /\ Len(written) < MaxWrites
    /\ written' = Append(written, message)
    /\ stdout' = stdout \o singer_write_message(message)
    /\ UNCHANGED <<writer_pc, reader_vars, select_vars, roundtrip_vars,
                 requires_vars, template_vars>>

InitWriter ==
    /\ written = <<>>
    /\ stdout = <<>>
    /\ writer_pc = "open"
    /\ ReaderIdle
    /\ SelectIdle
    /\ RoundTripIdle
    /\ RequiresIdle
    /\ TemplateIdle

NextWriter == \E message \in Messages : write_message(message)

SpecWriter == InitWriter /\ [][NextWriter]_vars


(* ------------------- numbers through the reader ----------------------- *)

\* Most digits after the decimal point of a number in the input.
MaxFracDigits == 2

\* 2^53 + 1, the least positive integer that no IEEE double holds.
BigInt == <<9, 0, 0, 7, 1, 9, 9, 2, 5, 4, 7, 4, 0, 9, 9, 3>>

\* The integer parts of the numbers: 0, or digits without a leading zero.
IntParts == {<<0>>, <<1>>, <<1, 0>>, BigInt}

\* The digits after the point; none when the number has no fraction part.
FracParts == SeqsUpTo({0, 1}, MaxFracDigits)

\* The exponents written with `e`.
Exponents == {-7, 0, 2}

\* The JSON number literals of the values in the `record` of a RECORD line:
\* -?int(.frac)?(e exp)?
NumberLiterals ==
    [py : {"text"}, neg : BOOLEAN, int : IntParts, frac : FracParts,
     hasExp : {FALSE}, exp : {0}]
      \cup [py : {"text"}, neg : BOOLEAN, int : IntParts, frac : FracParts,
            hasExp : {TRUE}, exp : Exponents]

Zeros(n) == [k \in 1..n |-> 0]

\* The digits without their leading zeros, one digit at least.
RECURSIVE StripLeadingZeros(_)
StripLeadingZeros(digits) ==
    IF Len(digits) > 1 /\ Head(digits) = 0
      THEN StripLeadingZeros(Tail(digits))
      ELSE digits

\* The digits without their trailing zeros, and the exponent raised by the
\* number of zeros dropped.
RECURSIVE StripTrailingZeros(_, _)
StripTrailingZeros(digits, exp) ==
    IF Len(digits) > 1 /\ digits[Len(digits)] = 0
      THEN StripTrailingZeros(SubSeq(digits, 1, Len(digits) - 1), exp + 1)
      ELSE [digits |-> digits, exp |-> exp]

\* int(text): a python int, of any size; there is no negative zero.
PyInt(lit) ==
    [py |-> "int", neg |-> lit.neg /\ lit.int # <<0>>, digits |-> lit.int]

\* decimal.Decimal(text): sign, coefficient digits and exponent, as written.
PyDecimal(lit) ==
    [py     |-> "Decimal",
     neg    |-> lit.neg,
     digits |-> StripLeadingZeros(lit.int \o lit.frac),
     exp    |-> lit.exp - Len(lit.frac)]

\* float(text), as far as its shortest repr shows: 17 significant digits at
\* most and no trailing zeros.
PyFloat(lit) ==
    LET all  == StripLeadingZeros(lit.int \o lit.frac)
        kept == IF Len(all) > 17 THEN SubSeq(all, 1, 17) ELSE all
        norm == StripTrailingZeros(kept, lit.exp - Len(lit.frac) + (Len(all) - Len(kept)))
    IN  [py |-> "float", neg |-> lit.neg, digits |-> norm.digits, exp |-> norm.exp]

\* json.loads with the default parse_float.
loads_number_float(lit) ==
    IF lit.frac = <<>> /\ ~lit.hasExp THEN PyInt(lit) ELSE PyFloat(lit)

\* What json.loads(line, parse_float=decimal.Decimal) makes of a number: an
\* int when the literal has neither fraction nor exponent, parse_float of the
\* literal otherwise.
loads_number(lit) ==
    IF lit.frac = <<>> /\ ~lit.hasExp THEN PyInt(lit) ELSE PyDecimal(lit)

\* str(decimal): plain notation when the exponent is not positive and there
\* are fewer than six zeros after the point, scientific notation otherwise.
DecimalStr(d) ==
    LET n          == Len(d.digits)
        leftdigits == d.exp + n
        dotplace   == IF d.exp <= 0 /\ leftdigits > -6 THEN leftdigits ELSE 1
    IN  [py     |-> "text",
         neg    |-> d.neg,
         int    |-> IF dotplace <= 0 THEN <<0>>
                    ELSE IF dotplace >= n THEN d.digits \o Zeros(dotplace - n)
                    ELSE SubSeq(d.digits, 1, dotplace),
         frac   |-> IF dotplace <= 0 THEN Zeros(-dotplace) \o d.digits
                    ELSE IF dotplace >= n THEN <<>>
                    ELSE SubSeq(d.digits, dotplace + 1, n),
         hasExp |-> leftdigits # dotplace,
         exp    |-> leftdigits - dotplace]

\* The number as the serializer of the written line renders it: the digits of
\* an int, str() of a Decimal.
dumps_number(value) ==
    IF value.py = "int"
      THEN [py |-> "text", neg |-> value.neg, int |-> value.digits, frac |-> <<>>,
            hasExp |-> FALSE, exp |-> 0]
      ELSE DecimalStr(value)

\* deserialize_json on a RECORD line with the number in its record.
RoundTripDeserialize ==
    /\ rt_pc = "text"
    /\ rt_value' = loads_number(rt_literal)
    /\ rt_pc' = "parsed"
    /\ UNCHANGED <<rt_literal, rt_output, reader_vars, select_vars, writer_vars,
                 requires_vars, template_vars>>

\* The parsed record serialized again.
RoundTripSerialize ==
    /\ rt_pc = "parsed"
    /\ rt_output' = dumps_number(rt_value)
    /\ rt_pc' = "written"
    /\ UNCHANGED <<rt_literal, rt_value, reader_vars, select_vars, writer_vars,
                 requires_vars, template_vars>>

InitRoundTrip ==
    /\ rt_literal \in NumberLiterals
    /\ rt_value = NoNumber
    /\ rt_output = NoNumber
    /\ rt_pc = "text"
    /\ ReaderIdle
    /\ SelectIdle
    /\ WriterIdle
    /\ RequiresIdle
    /\ TemplateIdle

NextRoundTrip == RoundTripDeserialize \/ RoundTripSerialize

SpecRoundTrip == InitRoundTrip /\ [][NextRoundTrip]_vars


(* --------------------- the required-key check ------------------------- *)

\* The keys of the parsed objects and of the sets of required keys.
Keys == {"type", "stream", "record"}

\* The parsed objects: a dict for every set of keys.
Dicts == {[py |-> "dict", items |-> [k \in ks |-> "v"]] : ks \in SUBSET Keys}

\* self._assert_line_requires(line_dict, requires), called by itself.
AssertLineRequiresCall ==
    /\ req_pc = "called"
    /\ req_raised' = assert_line_requires(req_line_dict, req_requires)
    /\ req_pc' = "done"
    /\ UNCHANGED <<req_line_dict, req_requires, reader_vars, select_vars, writer_vars,
                   roundtrip_vars, template_vars>>

InitRequires ==
    /\ req_line_dict \in Dicts
    /\ req_requires \in SUBSET Keys
    /\ req_raised = NoError
    /\ req_pc = "called"
    /\ ReaderIdle
    /\ SelectIdle
    /\ WriterIdle
    /\ RoundTripIdle
    /\ TemplateIdle

NextRequires == AssertLineRequiresCall

SpecRequires == InitRequires /\ [][NextRequires]_vars


(* ------------------------ the test template --------------------------- *)

\* The values of the class attribute `name`: None, the empty string, a name.
TemplateNames == {"None", "", "n"}

\* The values of the class attribute `type`: None in TestTemplate, "tap" in
\* TapTestTemplate, "target" in TargetTestTemplate.
TemplateTypes == {"None", "tap", "target"}

\* The values that `not` takes for false.
Falsy == {"None", ""}

\* How the call of a lifecycle step ends: it returns, it raises
\* NotImplementedError (as the steps of TestTemplate do, test excepted), or it
\* raises another error.
StepOutcomes == {"returns", "NotImplementedError", "Error"}

\* The error a step raised.
StepError(step, outcome) == [exc |-> outcome, step |-> step]

\* The call of a step with the given outcome, as it shows in the state.
StepCalled(step, outcome) ==
    /\ tt_calls' = Append(tt_calls, step)
    /\ tt_outcome' = [tt_outcome EXCEPT ![step] = outcome]

\* run that goes on to test() without calling setup().
Run_without_setup ==
    /\ tt_pc = "called"
    /\ IF tt_name \in Falsy \/ tt_type \in Falsy
         THEN /\ tt_raised' = [exc |-> "ValueError", step |-> "run"]
              /\ tt_pc' = "raised"
         ELSE /\ tt_pc' = "test"
              /\ UNCHANGED tt_raised
    /\ UNCHANGED <<tt_name, tt_type, tt_calls, tt_outcome, tt_pending, reader_vars,
                   select_vars, writer_vars, roundtrip_vars, requires_vars>>

\* run, lines 95-99: ValueError unless name and type are set.
Run ==
    /\ tt_pc = "called"
    /\ IF tt_name \in Falsy \/ tt_type \in Falsy
         THEN /\ tt_raised' = [exc |-> "ValueError", step |-> "run"]
              /\ tt_pc' = "raised"
         ELSE /\ tt_pc' = "setup"
              /\ UNCHANGED tt_raised
    /\ UNCHANGED <<tt_name, tt_type, tt_calls, tt_outcome, tt_pending, reader_vars,
                   select_vars, writer_vars, roundtrip_vars, requires_vars>>

\* Lines 101-102 without the suppress: any error of setup() leaves run.
Setup_unsuppressed ==
    /\ tt_pc = "setup"
    /\ \E o \in StepOutcomes :
          /\ StepCalled("setup", o)
          /\ IF o # "returns"
               THEN /\ tt_raised' = StepError("setup", o)
                    /\ tt_pc' = "raised"
               ELSE /\ tt_pc' = "test"
                    /\ UNCHANGED tt_raised
    /\ UNCHANGED <<tt_name, tt_type, tt_pending, reader_vars, select_vars, writer_vars,
                   roundtrip_vars, requires_vars>>

\* Lines 101-102: setup() under suppress(NotImplementedError).
Setup ==
    /\ tt_pc = "setup"
    /\ \E o \in StepOutcomes :
          /\ StepCalled("setup", o)
          /\ IF o = "Error"
               THEN /\ tt_raised' = StepError("setup", o)
                    /\ tt_pc' = "raised"
               ELSE /\ tt_pc' = "test"
                    /\ UNCHANGED tt_raised
    /\ UNCHANGED <<tt_name, tt_type, tt_pending, reader_vars, select_vars, writer_vars,
                   roundtrip_vars, requires_vars>>

\* test() outside the try statement: its error leaves run at once.
Test_no_finally ==
    /\ tt_pc = "test"
    /\ \E o \in StepOutcomes :
          /\ StepCalled("test", o)
          /\ IF o = "returns"
               THEN /\ tt_pc' = "validate"
                    /\ UNCHANGED tt_raised
               ELSE /\ tt_raised' = StepError("test", o)
                    /\ tt_pc' = "raised"
    /\ UNCHANGED <<tt_name, tt_type, tt_pending, reader_vars, select_vars, writer_vars,
                   roundtrip_vars, requires_vars>>

\* Lines 104-105: test() in the try statement; whatever it raises is in
\* flight while the finally clause runs.
Test ==
    /\ tt_pc = "test"
    /\ \E o \in StepOutcomes :
          /\ StepCalled("test", o)
          /\ IF o = "returns"
               THEN /\ tt_pc' = "validate"
                    /\ UNCHANGED tt_pending
               ELSE /\ tt_pending' = StepError("test", o)
                    /\ tt_pc' = "teardown"
    /\ UNCHANGED <<tt_name, tt_type, tt_raised, reader_vars, select_vars, writer_vars,
                   roundtrip_vars, requires_vars>>

\* Lines 106-107: validate() under suppress(NotImplementedError), in the try
\* statement.
Validate ==
    /\ tt_pc = "validate"
    /\ \E o \in StepOutcomes :
          /\ StepCalled("validate", o)
          /\ tt_pending' = IF o = "Error" THEN StepError("validate", o) ELSE tt_pending
          /\ tt_pc' = "teardown"
    /\ UNCHANGED <<tt_name, tt_type, tt_raised, reader_vars, select_vars, writer_vars,
                   roundtrip_vars, requires_vars>>

\* Lines 109-111: the finally clause, teardown() under
\* suppress(NotImplementedError).  An error of teardown leaves run in place of
\* the one in flight, which becomes its context; otherwise the one in flight,
\* if any, leaves run.
Teardown ==
    /\ tt_pc = "teardown"
    /\ \E o \in StepOutcomes :
          /\ StepCalled("teardown", o)
          /\ IF o = "Error"
               THEN /\ tt_raised' = StepError("teardown", o)
                    /\ tt_pc' = "raised"
               ELSE IF tt_pending # NoError
                      THEN /\ tt_raised' = tt_pending
                           /\ tt_pc' = "raised"
                      ELSE /\ tt_pc' = "returned"
                           /\ UNCHANGED tt_raised
    /\ UNCHANGED <<tt_name, tt_type, tt_pending, reader_vars, select_vars, writer_vars,
                   roundtrip_vars, requires_vars>>

InitTemplate ==
    /\ tt_name \in TemplateNames
    /\ tt_type \in TemplateTypes
    /\ tt_pc = "called"
    /\ tt_calls = <<>>
    /\ tt_outcome = [s \in Steps |-> "uncalled"]
    /\ tt_pending = NoError
    /\ tt_raised = NoError
    /\ ReaderIdle
    /\ SelectIdle
    /\ WriterIdle
    /\ RoundTripIdle
    /\ RequiresIdle

NextTemplate == Run \/ Setup \/ Test \/ Validate \/ Teardown

SpecTemplate == InitTemplate /\ [][NextTemplate]_vars


(* ------------------- vocabulary of the properties --------------------- *)

KindHandlers ==
    {"_process_schema_message", "_process_record_message",
     "_process_activate_version_message", "_process_state_message",
     "_process_batch_message", "_process_unknown_message"}

\* Positions in trace of the events of invocation i.
EventsOf(i) == {j \in DOMAIN trace : trace[j].inv = i}

\* Positions in trace of the events of line k of invocation i.
EventsOfLine(i, k) ==
    {j \in EventsOf(i) : trace[j].lineno = k /\ trace[j].handler \in KindHandlers}

CallsOfLine(i, k) == {j \in EventsOfLine(i, k) : trace[j].ev = "call"}

ReturnsOfLine(i, k) == {j \in EventsOfLine(i, k) : trace[j].ev = "return"}

\* Positions in trace of the end-of-stream hook's invocations by i.
HookCalls(i) == {j \in EventsOf(i) : trace[j].handler = "_process_endofpipe"}

\* The kind-handler calls of invocation i, in the order they happened.
HandlerCalls(i) ==
    LET IsCall(e) == e.inv = i /\ e.ev = "call" /\ e.handler \in KindHandlers
    IN  SelectSeq(trace, IsCall)

\* The line is a JSON object with a `type` key.
HasType(l) == l.form = "object" /\ l.type # Absent

\* The expected handler of a type value, spelled out kind by kind.
HandlerOfKind(t, h) ==
    /\ t = "SCHEMA" => h = "_process_schema_message"
    /\ t = "RECORD" => h = "_process_record_message"
    /\ t = "ACTIVATE_VERSION" => h = "_process_activate_version_message"
    /\ t = "STATE" => h = "_process_state_message"
    /\ t = "BATCH" => h = "_process_batch_message"
    /\ t \notin KnownKinds => h = "_process_unknown_message"

\* The python dict of an object line, written out from the line's text.
DictOf(l) ==
    [py    |-> "dict",
     items |-> IF l.type = Absent THEN ("stream" :> "a")
               ELSE ("type" :> l.type) @@ ("stream" :> "a")]

\* Lines of s whose type value is t.
LinesOfKind(s, t) == {k \in 1..Len(s) : HasType(s[k]) /\ s[k].type = t}

RECURSIVE SumOver(_, _)
SumOver(f, S) ==
    IF S = {} THEN 0
    ELSE LET x == CHOOSE y \in S : TRUE
         IN  f[x] + SumOver(f, S \ {x})

\* The counts are, kind by kind, the number of lines of s of that kind, and
\* they add up to the number of lines of s.
CountsMatch(counts, s) ==
    /\ DOMAIN counts = {s[k].type : k \in {n \in 1..Len(s) : HasType(s[n])}}
    /\ \A t \in DOMAIN counts : counts[t] = Cardinality(LinesOfKind(s, t))
    /\ SumOver(counts, DOMAIN counts) = Len(s)

\* listen has failed: an error has left it.
Failed(i) == raised[i] # NoError

\* The lines of invocation i that line 124 has counted.
CountedLines(i) ==
    IF pc[i] \in {"deserialize", "requires", "dispatch", "in_handler", "count", "failed"}
      THEN 1..(pos[i] - 1)
      ELSE 1..pos[i]

(* ------------------------------- C1 ----------------------------------- *)

\* C1: the kind handlers are invoked in input line order, exactly once per line:
\* the j-th handler call of a listen invocation is the call for line j of its
\* input, and its argument is the whole dict parsed from that line; there is
\* never a call for a line the input does not have, and when listen has
\* returned there is one call per line.
C1_HandlersInLineOrder ==
    \A i \in Invocations :
        LET calls == HandlerCalls(i)
        IN  /\ Len(calls) <= Len(file_input[i])
            /\ \A j \in 1..Len(calls) :
                  /\ calls[j].lineno = j
                  /\ file_input[i][j].form = "object"
                  /\ calls[j].arg = DictOf(file_input[i][j])
            /\ \A k \in 1..Len(file_input[i]) : Cardinality(CallsOfLine(i, k)) <= 1
            /\ pc[i] = "done" => Len(calls) = Len(file_input[i])

\* A listen call has returned after lines of three different kinds.
C1_Witness ==
    \E i \in Invocations :
        /\ pc[i] = "done"
        /\ Len(file_input[i]) = 3
        /\ Cardinality({HandlerCalls(i)[j].handler : j \in 1..3}) = 3

(* ------------------------------- C2 ----------------------------------- *)

\* C2: dispatch is a total function of the type value: every line with a
\* `type` key that the reader has got to is passed to exactly one handler, the
\* handler of its kind for the five known kinds and the unknown-message handler
\* for any other value.
C2_DispatchTotal ==
    \A i \in Invocations :
        /\ \A j \in EventsOf(i) :
              (trace[j].ev = "call" /\ trace[j].handler \in KindHandlers) =>
                  /\ HasType(file_input[i][trace[j].lineno])
                  /\ HandlerOfKind(file_input[i][trace[j].lineno].type, trace[j].handler)
        /\ \A k \in 1..pos[i] :
              (/\ HasType(file_input[i][k])
               /\ k = pos[i] => pc[i] \notin {"deserialize", "requires", "dispatch"})
                 => Cardinality(CallsOfLine(i, k)) = 1

\* A BATCH line and a line of unknown kind have both been dispatched.
C2_Witness ==
    \E i \in Invocations :
        /\ \E j \in EventsOf(i) :
              /\ trace[j].handler = "_process_batch_message"
              /\ file_input[i][trace[j].lineno].type = "BATCH"
        /\ \E j \in EventsOf(i) :
              /\ trace[j].handler = "_process_unknown_message"
              /\ file_input[i][trace[j].lineno].type = "FOO"

(* ------------------------------- C3 ----------------------------------- *)

\* C3 as stated: the per-kind counters are what listen returns.
C3_CountersReturnedFromListen ==
    \A i \in Invocations :
        pc[i] = "done" =>
            /\ listen_ret[i].kind = "Counter"
            /\ CountsMatch(listen_ret[i].counts, file_input[i])

\* C3, amended: the per-kind counters are what _process_lines returns to
\* listen: when the input is exhausted they add up to the number of input
\* lines and each equals the number of lines of its kind.  listen itself
\* returns None.
C3_CountersReturnedFromProcessLines ==
    \A i \in Invocations :
        /\ pc[i] \in {"endofpipe", "done"} =>
              /\ process_lines_ret[i].kind = "Counter"
              /\ CountsMatch(process_lines_ret[i].counts, file_input[i])
        /\ pc[i] = "done" => listen_ret[i] = PyNone

\* listen has returned after three lines of known kinds, two of one kind.
C3_Witness ==
    \E i \in Invocations :
        /\ pc[i] = "done"
        /\ Len(file_input[i]) = 3
        /\ \A k \in 1..3 : file_input[i][k].type \in KnownKinds
        /\ \A k \in 1..3 : file_input[i][k].form = "object"
        /\ \E t \in DOMAIN process_lines_ret[i].counts :
              process_lines_ret[i].counts[t] = 2

(* ------------------------------- C4 ----------------------------------- *)

\* C4: when listen has failed at line k, each of the lines 1..k-1 has had its
\* handler invoked once (and it returned), line k has had at most one handler
\* call, no line after k has any, the end-of-stream hook has not been invoked,
\* and the invocation takes no further step.
C4_FailFast ==
    \A i \in Invocations :
        Failed(i) =>
            /\ pc[i] = "failed"
            /\ pos[i] \in 1..Len(file_input[i])
            /\ \A k \in 1..(pos[i] - 1) :
                  /\ Cardinality(CallsOfLine(i, k)) = 1
                  /\ Cardinality(ReturnsOfLine(i, k)) = 1
            /\ Cardinality(CallsOfLine(i, pos[i])) <= 1
            /\ ReturnsOfLine(i, pos[i]) = {}
            /\ \A j \in EventsOf(i) : trace[j].lineno <= pos[i]
            /\ HookCalls(i) = {}

\* listen has failed at the second of three lines, its handler raising.
C4_Witness ==
    \E i \in Invocations :
        /\ Failed(i)
        /\ pos[i] = 2
        /\ Len(file_input[i]) = 3
        /\ raised[i].exc = "HandlerError"

(* ------------------------------- C5 ----------------------------------- *)

\* C5: the end-of-stream hook is invoked at most once per listen call, exactly
\* once when the call has returned; when it is invoked every line of the input
\* has had its handler called and returned, the call has not failed, and the
\* hook's call is the last event of that listen call.
C5_EndOfPipeOnceAtEnd ==
    \A i \in Invocations :
        /\ Cardinality(HookCalls(i)) <= 1
        /\ pc[i] = "done" => Cardinality(HookCalls(i)) = 1
        /\ pc[i] \in {"called", "next_line", "deserialize", "requires", "dispatch",
                      "in_handler", "count", "endofpipe", "failed"}
              => HookCalls(i) = {}
        /\ \A h \in HookCalls(i) :
              /\ ~Failed(i)
              /\ \A j \in EventsOf(i) : j <= h
              /\ \A k \in 1..Len(file_input[i]) :
                    /\ Cardinality(CallsOfLine(i, k)) = 1
                    /\ Cardinality(ReturnsOfLine(i, k)) = 1

\* The hook has run after the handlers of a two-line input.
C5_Witness ==
    \E i \in Invocations :
        /\ pc[i] = "done"
        /\ Len(file_input[i]) = 2
        /\ Cardinality(HookCalls(i)) = 1

(* ------------------------------- C6 ----------------------------------- *)

\* C6: once the required-key check has run on an object line without a `type`
\* key, listen has failed with InvalidInputLine reporting exactly {"type"} as
\* missing, and no handler, the unknown-message handler included, has been or
\* is ever invoked for that line.
C6_MissingType ==
    \A i \in Invocations :
        \A k \in 1..pos[i] :
            (file_input[i][k].form = "object" /\ file_input[i][k].type = Absent) =>
                /\ k = pos[i]
                /\ pc[i] \in {"deserialize", "requires", "failed"}
                /\ pc[i] = "failed" =>
                      raised[i] = [exc |-> "InvalidInputLine", missing |-> {"type"}]
                /\ EventsOfLine(i, k) = {}

\* listen has failed on a line without `type` that follows a good line.
C6_Witness ==
    \E i \in Invocations :
        /\ pos[i] = 2
        /\ file_input[i][2].form = "object"
        /\ file_input[i][2].type = Absent
        /\ pc[i] = "failed"
        /\ raised[i].exc = "InvalidInputLine"

(* ------------------------------- C7 ----------------------------------- *)

\* C7: once deserialize_json has run on a line that is not valid JSON, listen
\* has failed with JSONDecodeError carrying that line, and no handler has been
\* or is ever invoked for the line.
C7_InvalidJson ==
    \A i \in Invocations :
        \A k \in 1..pos[i] :
            file_input[i][k].form = "invalid" =>
                /\ k = pos[i]
                /\ pc[i] \in {"deserialize", "failed"}
                /\ pc[i] = "failed" =>
                      raised[i] = [exc |-> "JSONDecodeError", doc |-> file_input[i][k]]
                /\ EventsOfLine(i, k) = {}

\* listen has failed on an invalid line that follows a good line.
C7_Witness ==
    \E i \in Invocations :
        /\ pos[i] = 2
        /\ file_input[i][2].form = "invalid"
        /\ pc[i] = "failed"
        /\ raised[i].exc = "JSONDecodeError"
        /\ CallsOfLine(i, 1) # {}

(* ------------------------------- C8 ----------------------------------- *)

\* C8: when the reader does not override the unknown-message handler, a line
\* whose type is none of the five known kinds makes listen fail with the
\* ValueError that names that type value; the line is never counted and no
\* line after it is read or handled.
C8_UnknownKindFails ==
    ~unknown_override =>
        \A i \in Invocations :
            \A k \in 1..pos[i] :
                (HasType(file_input[i][k]) /\ file_input[i][k].type \notin KnownKinds) =>
                    /\ k = pos[i]
                    /\ pc[i] \in {"deserialize", "requires", "dispatch", "in_handler", "failed"}
                    /\ pc[i] = "failed" =>
                          raised[i] = [exc |-> "ValueError",
                                       record_type |-> file_input[i][k].type]
                    /\ ReturnsOfLine(i, k) = {}
                    /\ \A j \in EventsOf(i) : trace[j].lineno <= k
                    /\ file_input[i][k].type \notin DOMAIN stats[i]

\* listen has failed on a FOO line that has a line after it.
C8_Witness ==
    \E i \in Invocations :
        /\ ~unknown_override
        /\ pos[i] = 1
        /\ Len(file_input[i]) = 2
        /\ file_input[i][1].type = "FOO"
        /\ pc[i] = "failed"
        /\ raised[i].exc = "ValueError"

(* ------------------------------- C9 ----------------------------------- *)

\* C9: the error a concrete handler raised is the error that leaves listen:
\* for every raise of a handler the concrete reader supplies, listen has
\* failed and its error is the very value the handler raised.
C9_HandlerErrorUnmodified ==
    \A j \in DOMAIN trace :
        (trace[j].ev = "raise" /\ trace[j].err \in HandlerErrors) =>
            /\ pc[trace[j].inv] = "failed"
            /\ raised[trace[j].inv].exc = "HandlerError"
            /\ raised[trace[j].inv] = trace[j].err

\* The record handler has raised its second error on the second line.
C9_Witness ==
    \E j \in DOMAIN trace :
        /\ trace[j].ev = "raise"
        /\ trace[j].handler = "_process_record_message"
        /\ trace[j].lineno = 2
        /\ trace[j].err = [exc |-> "HandlerError", id |-> 2]
        /\ raised[trace[j].inv] = trace[j].err

(* ------------------------------- C10 ---------------------------------- *)

\* C10 as stated: the stats are counters of the reader instance, shared by
\* the listen calls in progress on it, so that a line one call has counted
\* shows in the stats of the other.
C10_StatsSharedPerInstance ==
    \A i, j \in Invocations :
        (pc[i] # "called" /\ pc[j] # "called") => stats[i] = stats[j]

\* C10, amended: the stats are local to each listen call: under every
\* interleaving of two listen calls on one reader, the stats of a call count
\* the lines of its own stream that it has handled, and nothing of the other
\* stream.
C10_StatsLocalToInvocation ==
    \A i \in Invocations :
        /\ DOMAIN stats[i] = {file_input[i][k].type : k \in CountedLines(i)}
        /\ \A t \in DOMAIN stats[i] :
              stats[i][t] = Cardinality(LinesOfKind(file_input[i], t) \cap CountedLines(i))
        /\ \A j \in Invocations \ {i} :
              \A k \in 1..Len(file_input[j]) :
                  LinesOfKind(file_input[i], file_input[j][k].type) = {}
                     => file_input[j][k].type \notin DOMAIN stats[i]

\* Both calls have counted a line, the handler calls interleaved: the call of
\* invocation 2 lies between the call and the return of invocation 1.
C10_Witness ==
    /\ stats[1] = ("RECORD" :> 1)
    /\ stats[2] = ("STATE" :> 1)
    /\ \E a, b, c \in DOMAIN trace :
          /\ a < b /\ b < c
          /\ trace[a].inv = 1 /\ trace[a].ev = "call"
          /\ trace[b].inv = 2 /\ trace[b].ev = "call"
          /\ trace[c].inv = 1 /\ trace[c].ev = "return"

(* ------------------------------- C11 ---------------------------------- *)

\* The lines of invocation i whose handler has returned.
ReturnedLines(i) == {k \in 1..pos[i] : ReturnsOfLine(i, k) # {}}

\* The count of kind t in the stats of invocation i (0 for a kind the
\* defaultdict has no entry for).
StatOf(i, t) == IF t \in DOMAIN stats[i] THEN stats[i][t] ELSE 0

\* C11: the reader consumes one line at a time.  At every moment each line
\* read before the one in hand has had its handler called and returned, and the
\* line in hand is the last line read; a further line is taken from the input
\* only by a call that has not failed and only when the line in hand has been
\* parsed, checked, handled and counted, so that a failure at line k leaves
\* the lines after k unread.
C11_OneLineAtATime ==
    /\ [](\A i \in Invocations :
            /\ pos[i] <= Len(file_input[i])
            /\ pos[i] >= 1 => line[i] = file_input[i][pos[i]]
            /\ \A k \in 1..(pos[i] - 1) :
                  /\ Cardinality(CallsOfLine(i, k)) = 1
                  /\ Cardinality(ReturnsOfLine(i, k)) = 1
            /\ \A j \in EventsOf(i) : trace[j].lineno <= pos[i])
    /\ [][\A i \in Invocations :
            pos'[i] # pos[i] =>
                /\ pos'[i] = pos[i] + 1
                /\ ~Failed(i)
                /\ \A k \in 1..pos[i] :
                      /\ Cardinality(ReturnsOfLine(i, k)) = 1
                      /\ k \in CountedLines(i)]_vars

\* The second of three lines is not valid JSON: listen has failed there with
\* the first line handled and the third unread.
C11_Witness ==
    \E i \in Invocations :
        /\ Len(file_input[i]) = 3
        /\ pos[i] = 2
        /\ Failed(i)
        /\ ReturnedLines(i) = {1}
        /\ line[i] = file_input[i][2]
        /\ line[i].form = "invalid"

(* ------------------------------- C12 ---------------------------------- *)

\* C12: the writer emits one line per write_message call, in the order of the
\* calls and with nothing merged, held back or moved: the output is, call by
\* call, format_message of the call's message followed by the terminator; and
\* a call leaves what was emitted before it as it was.
C12_WriterInCallOrder ==
    /\ [](/\ Len(stdout) = 2 * Len(written)
          /\ \A k \in 1..Len(written) :
                /\ stdout[2 * k - 1] = format_message(written[k])
                /\ stdout[2 * k - 1].type = TypeTag(written[k].cls)
                /\ stdout[2 * k - 1].stream = written[k].stream
                /\ stdout[2 * k] = Terminator)
    /\ [][/\ Len(written') = Len(written) + 1
          /\ Len(stdout') = Len(stdout) + 2
          /\ SubSeq(stdout', 1, Len(stdout)) = stdout]_vars

\* Three messages of different classes have been written.
C12_Witness ==
    /\ Len(written) = 3
    /\ Cardinality({written[k].cls : k \in 1..3}) = 3
    /\ Len(stdout) = 6

(* ------------------------------- C13 ---------------------------------- *)

\* The paths the mask marks selected.
SelectedPaths(mask) == {mask[k].path : k \in {n \in 1..Len(mask) : mask[n].selected}}

\* p is a prefix of q.
IsPrefix(p, q) == Len(p) <= Len(q) /\ SubSeq(q, 1, Len(p)) = p

\* The field list has a field named after the first segment of path, which
\* has a child named after the second, and so on.
RECURSIVE HasChain(_, _)
HasChain(fs, path) ==
    \/ path = <<>>
    \/ \E k \in 1..Len(fs) :
          fs[k].name = Head(path) /\ HasChain(fs[k].fields, Tail(path))

\* C13: selection projection completeness: the field list selection_to_fields
\* returns has, for every path marked selected, the chain of nested fields that
\* the path names, ancestors that the mask does not select included; for a
\* mask with nothing selected, the empty mask among them, it is empty.
C13_ProjectionComplete ==
    sel_pc = "returned" =>
        /\ \A p \in SelectedPaths(selection) : HasChain(fields, p)
        /\ SelectedPaths(selection) = {} => fields = <<>>
        /\ selection = <<>> => fields = <<>>

\* The mask selects ("x", "y") and has no entry for ("x",).
C13_Witness ==
    /\ sel_pc = "returned"
    /\ <<"x", "y">> \in SelectedPaths(selection)
    /\ \A k \in 1..Len(selection) : selection[k].path # <<"x">>
    /\ HasChain(fields, <<"x", "y">>)

(* ------------------------------- C14 ---------------------------------- *)

\* The paths of the fields of a field list, at every depth.
RECURSIVE FieldPaths(_)
FieldPaths(fs) ==
    UNION {{<<fs[k].name>>} \cup {<<fs[k].name>> \o q : q \in FieldPaths(fs[k].fields)} :
              k \in 1..Len(fs)}

\* The names of the children of the field at path, in a field list that has it.
RECURSIVE ChildNames(_, _)
ChildNames(fs, path) ==
    IF path = <<>> THEN {fs[k].name : k \in 1..Len(fs)}
    ELSE UNION {ChildNames(fs[k].fields, Tail(path)) :
                   k \in {n \in 1..Len(fs) : fs[n].name = Head(path)}}

\* C14: the field list has no extra branch: every field, at any depth, lies on
\* a prefix of a path marked selected; and a field is rendered with its
\* children: the children of a field are the next segments of the selected
\* paths that go through it, so that a field with selected descendants is not
\* a leaf.
C14_NoExtraBranches ==
    sel_pc = "returned" =>
        /\ \A q \in FieldPaths(fields) :
              \E p \in SelectedPaths(selection) : IsPrefix(q, p)
        /\ \A q \in FieldPaths(fields) \cup {<<>>} :
              ChildNames(fields, q) =
                 {p[Len(q) + 1] : p \in {r \in SelectedPaths(selection) :
                                            IsPrefix(q, r) /\ Len(r) > Len(q)}}

\* The mask marks ("y",) false and selects ("x", "y"): x is rendered with its
\* child and there is no top-level y.
C14_Witness ==
    /\ sel_pc = "returned"
    /\ \E k \in 1..Len(selection) : selection[k] = [path |-> <<"y">>, selected |-> FALSE]
    /\ <<"x", "y">> \in SelectedPaths(selection)
    /\ FieldPaths(fields) = {<<"x">>, <<"x", "y">>}

(* ------------------------------- C15 ---------------------------------- *)

\* No two fields of one list have the same name, at any depth.
RECURSIVE NoSiblingsAlike(_)
NoSiblingsAlike(fs) ==
    /\ \A a, b \in 1..Len(fs) : a # b => fs[a].name # fs[b].name
    /\ \A k \in 1..Len(fs) : NoSiblingsAlike(fs[k].fields)

\* C15: selecting a node and one of its descendants yields the node once, with
\* the descendant as its child: whatever the order of the mask, no two sibling
\* fields have the same name, and the mask {("x",): true, ("x", "y"): true}
\* gives the single top-level field x with the single child y.
C15_NoDuplicateSiblings ==
    sel_pc = "returned" =>
        /\ NoSiblingsAlike(fields)
        /\ SelectedPaths(selection) = {<<"x">>, <<"x", "y">>} =>
              fields = <<[name   |-> "x",
                          fields |-> <<[name |-> "y", fields |-> <<>>]>>]>>

\* The mask selects the descendant before the node.
C15_Witness ==
    /\ sel_pc = "returned"
    /\ selection = <<[path |-> <<"x", "y">>, selected |-> TRUE],
                     [path |-> <<"x">>, selected |-> TRUE]>>
    /\ Len(fields) = 1
    /\ Len(fields[1].fields) = 1

(* ------------------------------- C17 ---------------------------------- *)

\* The decimal a literal writes down: its sign (zero has none), the digits of
\* its coefficient and its exponent, so that 1.10 and 1.1 differ and 10e-1 and
\* 1.0 do not.
DecimalWritten(lit) ==
    LET digits == StripLeadingZeros(lit.int \o lit.frac)
    IN  [neg    |-> lit.neg /\ digits # <<0>>,
         digits |-> digits,
         exp    |-> lit.exp - Len(lit.frac)]

\* C17: a number of a RECORD line comes out of deserialize_json and the
\* serialization that follows as the decimal it went in as, digit for digit:
\* no trailing zero is dropped, no digit of a large integer is lost; and a
\* number written without an exponent comes out as the very text it went in
\* as (the integer -0 comes out as 0).
C17_NumbersRoundTrip ==
    rt_pc = "written" =>
        /\ DecimalWritten(rt_output) = DecimalWritten(rt_literal)
        /\ (/\ ~rt_literal.hasExp
            /\ ~(rt_literal.neg /\ rt_literal.int = <<0>> /\ rt_literal.frac = <<>>))
              => rt_output = rt_literal
        /\ (rt_literal.frac = <<>> /\ ~rt_literal.hasExp) => rt_value.py = "int"
        /\ (rt_literal.frac # <<>> \/ rt_literal.hasExp) => rt_value.py = "Decimal"

\* 9007199254740993.10 has gone through.
C17_Witness ==
    /\ rt_pc = "written"
    /\ rt_literal.int = BigInt
    /\ rt_literal.frac = <<1, 0>>
    /\ ~rt_literal.hasExp
    /\ rt_output.int = BigInt
    /\ rt_output.frac = <<1, 0>>

(* ------------------------------- C18 ---------------------------------- *)

\* C18: the per-kind counter of a line is incremented only after the line's
\* handler has returned.  At every point each kind's count is the number of
\* lines of that kind whose handler has returned, the line in hand excepted
\* between the return of its handler and the increment; a line whose handler
\* raised, be it a concrete handler or the default unknown-message handler, is
\* in no count.
C18_CountAfterReturn ==
    \A i \in Invocations :
        LET pending == IF pc[i] = "count" THEN {pos[i]} ELSE {}
        IN  /\ pending \subseteq ReturnedLines(i)
            /\ DOMAIN stats[i] \subseteq TypeValues
            /\ \A t \in TypeValues :
                  StatOf(i, t) =
                     Cardinality({k \in ReturnedLines(i) \ pending :
                                     file_input[i][k].type = t})
            /\ \A j \in EventsOf(i) :
                  trace[j].ev = "raise" =>
                      /\ trace[j].lineno \notin ReturnedLines(i)
                      /\ SumOver(stats[i], DOMAIN stats[i]) = trace[j].lineno - 1

\* The handler of a second RECORD line has raised: one RECORD is counted.
C18_Witness ==
    \E i \in Invocations :
        /\ pos[i] = 2
        /\ file_input[i][1].type = "RECORD"
        /\ file_input[i][2].type = "RECORD"
        /\ \E j \in EventsOf(i) : trace[j].ev = "raise" /\ trace[j].lineno = 2
        /\ StatOf(i, "RECORD") = 1

(* ------------------------------- C19 ---------------------------------- *)

\* The calls of the record handler by invocation i.
RecordCalls(i) ==
    {j \in EventsOf(i) :
        trace[j].ev = "call" /\ trace[j].handler = "_process_record_message"}

\* The RECORD lines of invocation i that have got as far as the dispatch.
DispatchedRecordLines(i) ==
    {k \in 1..pos[i] :
        /\ HasType(file_input[i][k])
        /\ file_input[i][k].type = "RECORD"
        /\ k = pos[i] => pc[i] \notin {"deserialize", "requires", "dispatch"}}

\* C19: the live record counter is incremented once for each RECORD line, not
\* later than the call of the line's record handler, and for no line of another
\* kind: at every point, a record handler in progress included, it equals the
\* number of RECORD lines dispatched and the number of record handler calls.
\* When the record handler raises, the live counter has counted the line and
\* the per-kind stats have not.
C19_LiveRecordCounter ==
    \A i \in Invocations :
        /\ record_message_counter[i] = Cardinality(DispatchedRecordLines(i))
        /\ record_message_counter[i] = Cardinality(RecordCalls(i))
        /\ \A j \in EventsOf(i) :
              (trace[j].ev = "raise" /\ trace[j].handler = "_process_record_message") =>
                  record_message_counter[i] = StatOf(i, "RECORD") + 1

\* The record handler has raised on the RECORD line that follows a STATE line
\* and a RECORD line: the live counter is 2, the stats count one RECORD.
C19_Witness ==
    \E i \in Invocations :
        /\ pos[i] = 3
        /\ file_input[i][1].type = "STATE"
        /\ file_input[i][2].type = "RECORD"
        /\ file_input[i][3].type = "RECORD"
        /\ \E j \in EventsOf(i) :
              /\ trace[j].ev = "raise"
              /\ trace[j].handler = "_process_record_message"
        /\ record_message_counter[i] = 2
        /\ StatOf(i, "RECORD") = 1

(* ------------------------------- C20 ---------------------------------- *)

\* The line is an object whose type value is none of the five known kinds.
UnknownKind(l) == HasType(l) /\ l.type \notin KnownKinds

C21_ReportsAllMissingKeys ==
    req_pc = "done" =>
        LET present == DOMAIN req_line_dict.items
        IN  /\ req_raised # NoError <=> \E k \in req_requires : k \notin present
            /\ req_raised # NoError =>
                  /\ req_raised.exc = "InvalidInputLine"
                  /\ req_raised.missing = req_requires \ present
            /\ req_requires \subseteq present => req_raised = NoError

\* Three keys are required and the object has one of them: the two others are
\* reported.
C21_Witness ==
    /\ req_pc = "done"
    /\ req_requires = Keys
    /\ DOMAIN req_line_dict.items = {"stream"}
    /\ req_raised.exc = "InvalidInputLine"
    /\ req_raised.missing = {"type", "record"}

(* ------------------------------- C22 ---------------------------------- *)

\* The lifecycle steps in the order run names them.
StepOrder == <<"setup", "test", "validate", "teardown">>

\* The place of a step in that order.
StepPlace(step) == CHOOSE k \in 1..Len(StepOrder) : StepOrder[k] = step

\* The step has been invoked.
Invoked(step) == \E k \in 1..Len(tt_calls) : tt_calls[k] = step

\* The number of invocations of the step.
InvocationsOf(step) == Cardinality({k \in 1..Len(tt_calls) : tt_calls[k] = step})

\* C22: in a run with name and type set the lifecycle steps are invoked in
\* the order setup, test, validate, teardown, each at most once: of two
\* invocations the earlier is of the step that comes first in that order;
\* test is not invoked without setup before it, nor validate without test;
\* nothing is invoked after teardown; and a run that returns has invoked all
\* four.  A run without name or type invokes no step.
C22_LifecycleOrder ==
    /\ \A a, b \in 1..Len(tt_calls) :
          a < b => StepPlace(tt_calls[a]) < StepPlace(tt_calls[b])
    /\ \A s \in Steps : InvocationsOf(s) <= 1
    /\ Invoked("test") => tt_calls[1] = "setup"
    /\ Invoked("validate") => Invoked("test")
    /\ Invoked("teardown") => tt_calls[Len(tt_calls)] = "teardown"
    /\ tt_pc = "returned" => tt_calls = StepOrder
    /\ (tt_name \in Falsy \/ tt_type \in Falsy) => tt_calls = <<>>

\* A run that has invoked the four steps and returned, setup and validate
\* having raised NotImplementedError.
C22_Witness ==
    /\ tt_pc = "returned"
    /\ tt_calls = StepOrder
    /\ tt_outcome["setup"] = "NotImplementedError"
    /\ tt_outcome["validate"] = "NotImplementedError"

(* ------------------------------- C23 ---------------------------------- *)

\* run has returned or raised.
RunOver == tt_pc \in {"returned", "raised"}

\* The call of the step raised.
StepRaised(step) == tt_outcome[step] \in {"NotImplementedError", "Error"}

\* C23: once test() has been invoked, run does not end before teardown() has
\* been invoked, and teardown() is invoked once, whether test() or validate()
\* returns or raises; validate() is not invoked when test() raises; and
\* teardown() is not invoked in a run that ends before test(): one without
\* name or type, or one whose setup() raises an error other than
\* NotImplementedError.
C23_TeardownAfterTest ==
    /\ InvocationsOf("teardown") <= 1
    /\ (Invoked("test") /\ RunOver) => InvocationsOf("teardown") = 1
    /\ (Invoked("test") /\ ~Invoked("teardown")) => tt_pc \in {"validate", "teardown"}
    /\ StepRaised("test") => ~Invoked("validate")
    /\ ~Invoked("test") => ~Invoked("teardown")
    /\ (tt_name \in Falsy \/ tt_type \in Falsy) =>
          ~Invoked("test") /\ ~Invoked("teardown")
    /\ tt_outcome["setup"] = "Error" => ~Invoked("test") /\ ~Invoked("teardown")

\* test() has raised an error, validate() has been passed over, teardown()
\* has been invoked and run has ended.
C23_Witness ==
    /\ RunOver
    /\ tt_outcome["test"] = "Error"
    /\ tt_calls = <<"setup", "test", "teardown">>

(* ------------------------------- C24 ---------------------------------- *)

\* The steps whose NotImplementedError run suppresses.
OptionalSteps == {"setup", "validate", "teardown"}

\* The call of the step raised an error that run does not suppress.
Unsuppressed(step) ==
    \/ tt_outcome[step] = "Error"
    \/ step = "test" /\ tt_outcome[step] = "NotImplementedError"

\* The run goes on after the step as it does after the step has returned.
\* After setup that is test(), after validate teardown() with no error in
\* flight, after teardown the end of run: a return, or the error in flight.
GoesOnAfter(step) ==
    CASE step = "setup"    -> tt_pc = "test" \/ Invoked("test")
      [] step = "validate" -> tt_pending = NoError /\ (tt_pc = "teardown" \/ Invoked("teardown"))
      [] step = "teardown" -> RunOver /\ tt_raised = tt_pending
                                /\ (tt_pc = "returned" <=> tt_pending = NoError)

\* C24 as stated: the NotImplementedError of setup, validate or teardown is
\* suppressed and the run goes on as after a return, and every other error of
\* a step is the error that leaves run.
C24_EveryOtherErrorPropagates ==
    /\ \A s \in OptionalSteps :
          tt_outcome[s] \in {"returns", "NotImplementedError"} => GoesOnAfter(s)
    /\ RunOver =>
          \A s \in Steps :
              Unsuppressed(s) => tt_raised = StepError(s, tt_outcome[s])

\* C24, amended: the NotImplementedError of setup, validate or teardown is
\* suppressed and the run goes on as after a return; no other error is
\* suppressed: a run in which test() raises anything, or another step raises
\* an error other than NotImplementedError, ends with an error.  The error
\* that leaves run is that of the step, except that an error of teardown()
\* other than NotImplementedError takes the place of the error of test() or
\* validate() in flight, which stays behind as its context.
C24_SuppressionAndPropagation ==
    /\ \A s \in OptionalSteps :
          tt_outcome[s] \in {"returns", "NotImplementedError"} => GoesOnAfter(s)
    /\ tt_raised.exc = "NotImplementedError" => tt_raised.step = "test"
    /\ RunOver =>
          /\ (\E s \in Steps : Unsuppressed(s)) => tt_pc = "raised"
          /\ tt_pc = "returned" => tt_raised = NoError
          /\ \A s \in Steps :
                Unsuppressed(s) =>
                    IF s # "teardown" /\ tt_outcome["teardown"] = "Error"
                      THEN /\ tt_raised = StepError("teardown", "Error")
                           /\ tt_pending = StepError(s, tt_outcome[s])
                      ELSE tt_raised = StepError(s, tt_outcome[s])

\* setup() raised NotImplementedError and the run went on; test() raised an
\* error and then teardown() another: teardown's has left run, with that of
\* test() as its context.
C24_Witness ==
    /\ RunOver
    /\ tt_outcome["setup"] = "NotImplementedError"
    /\ tt_outcome["test"] = "Error"
    /\ tt_outcome["teardown"] = "Error"
    /\ tt_raised = StepError("teardown", "Error")
    /\ tt_pending = StepError("test", "Error")

=============================================================================
